---------------------------- MODULE Spec2Model ----------------------------
(***************************************************************************)
(* A model of the grep matching core: tokenizer (src/grep/tokens.rs),      *)
(* parser (src/grep/syntax.rs), character predicates                       *)
(* (src/grep/patterns.rs) and backtracking matcher with its driver         *)
(* (src/grep.rs).                                                          *)
(*                                                                         *)
(* A character is a one-character string; Ord gives its Unicode scalar     *)
(* value, from which the ordering used by the range predicates and the     *)
(* UTF-8 width used by str::len() follow.  A text is a sequence of         *)
(* characters.  A panic of the program is the outcome "Panic".             *)
(***************************************************************************)
EXTENDS Integers, Sequences, FiniteSets, TLC

(***************************************************************************)
(* Characters                                                              *)
(***************************************************************************)

\* The Unicode scalar value of the characters the model uses.
Ord(c) ==
    CASE c = " " -> 32
      [] c = "$" -> 36
      [] c = "(" -> 40
      [] c = ")" -> 41
      [] c = "+" -> 43
      [] c = "," -> 44
      [] c = "-" -> 45
      [] c = "." -> 46
      [] c = "0" -> 48
      [] c = "1" -> 49
      [] c = "2" -> 50
      [] c = "3" -> 51
      [] c = "9" -> 57
      [] c = "?" -> 63
      [] c = "A" -> 65
      [] c = "Z" -> 90
      [] c = "[" -> 91
      [] c = "\\" -> 92
      [] c = "]" -> 93
      [] c = "^" -> 94
      [] c = "_" -> 95
      [] c = "a" -> 97
      [] c = "b" -> 98
      [] c = "c" -> 99
      [] c = "d" -> 100
      [] c = "f" -> 102
      [] c = "g" -> 103
      [] c = "h" -> 104
      [] c = "i" -> 105
      [] c = "n" -> 110
      [] c = "s" -> 115
      [] c = "t" -> 116
      [] c = "w" -> 119
      [] c = "x" -> 120
      [] c = "z" -> 122
      [] c = "|" -> 124
      [] c = "ö" -> 246

\* The number of bytes of a character in UTF-8 (char::len_utf8).
len_utf8(c) ==
    IF Ord(c) < 128 THEN 1
    ELSE IF Ord(c) < 2048 THEN 2
    ELSE IF Ord(c) < 65536 THEN 3 ELSE 4

RECURSIVE str_len(_)
\* str::len(): the length of a text in bytes.
str_len(text) ==
    IF text = <<>> THEN 0 ELSE len_utf8(Head(text)) + str_len(Tail(text))

Min(a, b) == IF a < b THEN a ELSE b

\* StringUtils::slice(from..to): the characters of text at the character
\* positions from (inclusive) to to (exclusive), positions past the end
\* being clamped to the end.
slice(text, from, to) ==
    SubSeq(text, Min(from, Len(text)) + 1, Min(to, Len(text)))

\* text.slice(from..)
slice_from(text, from) == slice(text, from, Len(text))

\* text.slice(..to)
slice_to(text, to) == slice(text, 0, to)

\* str::starts_with
starts_with(text, prefix) ==
    /\ Len(prefix) <= Len(text)
    /\ SubSeq(text, 1, Len(prefix)) = prefix

(***************************************************************************)
(* Character predicates (src/grep/patterns.rs)                             *)
(***************************************************************************)

is_in_range(lower_inclusive, upper_inclusive, char) ==
    Ord(lower_inclusive) <= Ord(char) /\ Ord(char) <= Ord(upper_inclusive)

is_digit(char) == is_in_range("0", "9", char)

is_lower_case_letter(char) == is_in_range("a", "z", char)

is_upper_case_letter(char) == is_in_range("A", "Z", char)

is_word(char) ==
    \/ is_digit(char)
    \/ is_lower_case_letter(char)
    \/ is_upper_case_letter(char)
    \/ char = "_"

\* patterns::is_any_of: char is one of chars.
is_any_of(chars, char) == \E i \in 1..Len(chars) : chars[i] = char

(***************************************************************************)
(* Tokenizer (src/grep/tokens.rs)                                          *)
(***************************************************************************)

Tok(kind, c) == [kind |-> kind, char |-> c]

tokenize_char(c) ==
    CASE c = "\\" -> Tok("Backslash", "")
      [] c = "(" -> Tok("OpenBracket", "")
      [] c = ")" -> Tok("CloseBracket", "")
      [] c = "[" -> Tok("OpenSquareBracket", "")
      [] c = "]" -> Tok("CloseSquareBracket", "")
      [] c = "^" -> Tok("Caret", "")
      [] c = "$" -> Tok("Dollar", "")
      [] c = "+" -> Tok("Plus", "")
      [] c = "?" -> Tok("QuestionMark", "")
      [] c = "." -> Tok("Dot", "")
      [] c = "|" -> Tok("Bar", "")
      [] OTHER -> Tok("Literal", c)

tokenize_pattern(pattern) ==
    [i \in 1..Len(pattern) |-> tokenize_char(pattern[i])]

(***************************************************************************)
(* Parser (src/grep/syntax.rs)                                             *)
(***************************************************************************)

\* A value of enum Syntax.  Every node carries every field, the fields its
\* variant does not have being empty; the boxed inner syntax of a quantifier
\* is the one-element sequence "syntax".
Syntax(kind, c, cs, neg, inner, os, id, text) ==
    [kind |-> kind, char |-> c, chars |-> cs, is_negated |-> neg,
     syntax |-> inner, options |-> os, id |-> id, text |-> text]

Literal(c) == Syntax("Literal", c, <<>>, FALSE, <<>>, <<>>, 0, <<>>)
Digit == Syntax("Digit", "", <<>>, FALSE, <<>>, <<>>, 0, <<>>)
Word == Syntax("Word", "", <<>>, FALSE, <<>>, <<>>, 0, <<>>)
Wildcard == Syntax("Wildcard", "", <<>>, FALSE, <<>>, <<>>, 0, <<>>)
CharacterClass(cs, neg) ==
    Syntax("CharacterClass", "", cs, neg, <<>>, <<>>, 0, <<>>)
StartOfLineAnchor ==
    Syntax("StartOfLineAnchor", "", <<>>, FALSE, <<>>, <<>>, 0, <<>>)
EndOfLineAnchor ==
    Syntax("EndOfLineAnchor", "", <<>>, FALSE, <<>>, <<>>, 0, <<>>)
OneOrMore(s) == Syntax("OneOrMore", "", <<>>, FALSE, <<s>>, <<>>, 0, <<>>)
ZeroOrOne(s) == Syntax("ZeroOrOne", "", <<>>, FALSE, <<s>>, <<>>, 0, <<>>)
CaptureGroup(os, id) ==
    Syntax("CaptureGroup", "", <<>>, FALSE, <<>>, os, id, <<>>)
CaptureGroupEnd(text, id) ==
    Syntax("CaptureGroupEnd", "", <<>>, FALSE, <<>>, <<>>, id, text)
BackReference(id) ==
    Syntax("BackReference", "", <<>>, FALSE, <<>>, <<>>, id, <<>>)

\* The result of a parse: the nodes, the capture group counter after the
\* parse, and the panic message ("" when the parse did not panic).
Parsed(syntax, id) == [syntax |-> syntax, id |-> id, err |-> ""]
ParsePanic(msg) == [syntax |-> <<>>, id |-> 0, err |-> msg]

\* into_character_class: the characters of the Literal tokens; any other
\* token panics.
into_character_class(tokens, is_negated) ==
    IF \E i \in 1..Len(tokens) : tokens[i].kind # "Literal"
    THEN [ok |-> FALSE, node |-> Literal("")]
    ELSE [ok |-> TRUE,
          node |-> CharacterClass([i \in 1..Len(tokens) |-> tokens[i].char],
                                  is_negated)]

is_opening_bracket(token) ==
    CASE token.kind = "OpenBracket" -> "Bracket"
      [] token.kind = "OpenSquareBracket" -> "SquareBracket"
      [] OTHER -> "None"

is_closing_bracket(token) ==
    CASE token.kind = "CloseBracket" -> "Bracket"
      [] token.kind = "CloseSquareBracket" -> "SquareBracket"
      [] OTHER -> "None"

RECURSIVE find_closing_loop_any_kind(_, _, _, _)
\* find_closing_bracket without the comparison of the bracket kinds.
find_closing_loop_any_kind(pattern, kind, index, brackets) ==
    IF index >= Len(pattern) THEN -1
    ELSE
      LET token == pattern[index + 1]
          pushed == IF is_opening_bracket(token) # "None"
                    THEN Append(brackets, is_opening_bracket(token))
                    ELSE brackets
      IN IF is_closing_bracket(token) # "None"
         THEN IF pushed # <<>>
              THEN find_closing_loop_any_kind(pattern, kind, index + 1,
                                              SubSeq(pushed, 1, Len(pushed) - 1))
              ELSE index
         ELSE find_closing_loop_any_kind(pattern, kind, index + 1, pushed)

RECURSIVE find_closing_loop(_, _, _, _)
\* The loop of find_closing_bracket over pattern[1..]: index is the 0-based
\* index of the token looked at, brackets the stack of brackets opened after
\* the first.  The result is the 0-based index of the closing bracket, or -1
\* for None.
find_closing_loop(pattern, kind, index, brackets) ==
    IF index >= Len(pattern) THEN -1
    ELSE
      LET token == pattern[index + 1]
          open_kind == is_opening_bracket(token)
          close_kind == is_closing_bracket(token)
          pushed == IF open_kind # "None"
                    THEN Append(brackets, open_kind) ELSE brackets
      IN IF close_kind # "None"
         THEN IF pushed # <<>>
              THEN IF pushed[Len(pushed)] # close_kind
                   THEN -1
                   ELSE find_closing_loop(pattern, kind, index + 1,
                                          SubSeq(pushed, 1, Len(pushed) - 1))
              ELSE IF close_kind = kind THEN index ELSE -1
         ELSE find_closing_loop(pattern, kind, index + 1, pushed)

\* find_closing_bracket: pattern starts with an opening bracket (every caller
\* guarantees it).
find_closing_bracket(pattern) ==
    find_closing_loop(pattern, is_opening_bracket(pattern[1]), 1, <<>>)

RECURSIVE split_bar(_, _)
\* slice::split(|t| *t == Token::Bar): the pieces between the Bar tokens, an
\* empty range giving one empty piece.  cur is the piece being collected.
split_bar(tokens, cur) ==
    IF tokens = <<>> THEN <<cur>>
    ELSE IF Head(tokens).kind = "Bar"
         THEN <<cur>> \o split_bar(Tail(tokens), <<>>)
         ELSE split_bar(Tail(tokens), Append(cur, Head(tokens)))

to_digit(c) == Ord(c) - Ord("0")

starts_with_kinds(remainder, kinds) ==
    /\ Len(kinds) <= Len(remainder)
    /\ \A i \in 1..Len(kinds) : remainder[i].kind = kinds[i]

RECURSIVE parse_pattern_core(_, _)
RECURSIVE parse_loop(_, _, _)
RECURSIVE parse_options(_, _, _)

\* The options of a capture group parsed each with its own copy of the
\* counter: what an option counts is lost after it.
parse_options_own_counter(pieces, capture_group_id, done) ==
    IF pieces = <<>> THEN Parsed(done, capture_group_id)
    ELSE LET o == parse_pattern_core(Head(pieces), capture_group_id)
         IN IF o.err # "" THEN o
            ELSE parse_options(Tail(pieces), capture_group_id,
                               Append(done, o.syntax))

\* The map over the options of a capture group, which parses each option in
\* order with the shared counter; done holds the options parsed so far.
parse_options(pieces, capture_group_id, done) ==
    IF pieces = <<>> THEN Parsed(done, capture_group_id)
    ELSE LET o == parse_pattern_core(Head(pieces), capture_group_id)
         IN IF o.err # "" THEN o
            ELSE parse_options(Tail(pieces), o.id, Append(done, o.syntax))

\* The while loop of parse_pattern_core.
parse_loop(syntax, remainder, capture_group_id) ==
    IF Len(remainder) = 0 THEN Parsed(syntax, capture_group_id)
    ELSE IF starts_with_kinds(remainder, <<"OpenSquareBracket">>) THEN
      LET end == find_closing_bracket(remainder) IN
      IF end = -1
      THEN ParsePanic("Incomplete character class (missing closing bracket)")
      ELSE
        LET character_class == SubSeq(remainder, 2, end)
            negated == starts_with_kinds(character_class, <<"Caret">>)
            cc == IF negated
                  THEN into_character_class(Tail(character_class), TRUE)
                  ELSE into_character_class(character_class, FALSE)
        IN IF ~cc.ok THEN ParsePanic("Invalid token in character class")
           ELSE parse_loop(Append(syntax, cc.node),
                           SubSeq(remainder, end + 2, Len(remainder)),
                           capture_group_id)
    ELSE IF starts_with_kinds(remainder, <<"OpenBracket">>) THEN
      LET end == find_closing_bracket(remainder) IN
      IF end = -1
      THEN ParsePanic("Incomplete alternation (missing closing bracket)")
      ELSE
        LET id == capture_group_id + 1
            os == parse_options(split_bar(SubSeq(remainder, 2, end), <<>>),
                                id, <<>>)
        IN IF os.err # "" THEN os
           ELSE parse_loop(Append(syntax, CaptureGroup(os.syntax, id)),
                           SubSeq(remainder, end + 2, Len(remainder)),
                           os.id)
    ELSE IF starts_with_kinds(remainder, <<"Backslash", "Backslash">>) THEN
      parse_loop(Append(syntax, Literal("\\")),
                 SubSeq(remainder, 3, Len(remainder)), capture_group_id)
    ELSE IF /\ starts_with_kinds(remainder, <<"Backslash", "Literal">>)
            /\ remainder[2].char = "d" THEN
      parse_loop(Append(syntax, Digit),
                 SubSeq(remainder, 3, Len(remainder)), capture_group_id)
    ELSE IF /\ starts_with_kinds(remainder, <<"Backslash", "Literal">>)
            /\ remainder[2].char = "w" THEN
      parse_loop(Append(syntax, Word),
                 SubSeq(remainder, 3, Len(remainder)), capture_group_id)
    ELSE IF starts_with_kinds(remainder, <<"Backslash">>) THEN
      IF Len(remainder) < 2 THEN ParsePanic("Incomplete escape sequence")
      ELSE IF remainder[2].kind = "Literal"
           THEN IF is_digit(remainder[2].char)
                THEN parse_loop(
                       Append(syntax, BackReference(to_digit(remainder[2].char))),
                       SubSeq(remainder, 3, Len(remainder)), capture_group_id)
                ELSE ParsePanic("Unrecognized escape sequence")
           ELSE ParsePanic("Unrecognized token type following backslash")
    ELSE IF starts_with_kinds(remainder, <<"Dot">>) THEN
      parse_loop(Append(syntax, Wildcard), Tail(remainder), capture_group_id)
    ELSE IF starts_with_kinds(remainder, <<"Dollar">>) THEN
      parse_loop(Append(syntax, EndOfLineAnchor), Tail(remainder),
                 capture_group_id)
    ELSE IF starts_with_kinds(remainder, <<"Plus">>) THEN
      IF syntax = <<>>
      THEN ParsePanic("The one or more modifier can only appear after another token")
      ELSE parse_loop(Append(SubSeq(syntax, 1, Len(syntax) - 1),
                             OneOrMore(syntax[Len(syntax)])),
                      Tail(remainder), capture_group_id)
    ELSE IF starts_with_kinds(remainder, <<"QuestionMark">>) THEN
      IF syntax = <<>>
      THEN ParsePanic("The zero or more modifier can only appear after another token")
      ELSE parse_loop(Append(SubSeq(syntax, 1, Len(syntax) - 1),
                             ZeroOrOne(syntax[Len(syntax)])),
                      Tail(remainder), capture_group_id)
    ELSE IF remainder[1].kind = "Literal" THEN
      parse_loop(Append(syntax, Literal(remainder[1].char)), Tail(remainder),
                 capture_group_id)
    ELSE ParsePanic("Malformed pattern, cannot parse token")

parse_pattern_core(pattern, capture_group_id) ==
    IF starts_with_kinds(pattern, <<"Caret">>)
    THEN parse_loop(<<StartOfLineAnchor>>, Tail(pattern), capture_group_id)
    ELSE parse_loop(<<>>, pattern, capture_group_id)

parse_pattern(pattern) == parse_pattern_core(pattern, 0)

(***************************************************************************)
(* Matcher (src/grep.rs)                                                   *)
(***************************************************************************)

\* The outcome of a matcher call: Option<Match> ("Some" with the matched
\* characters m, or "None"), or a panic with its message; cg is the capture
\* group map the call leaves behind.
Some(m, cg) == [tag |-> "Some", m |-> m, cg |-> cg, msg |-> ""]
None(cg) == [tag |-> "None", m |-> <<>>, cg |-> cg, msg |-> ""]
Panic(msg, cg) == [tag |-> "Panic", m |-> <<>>, cg |-> cg, msg |-> msg]

\* HashMap::insert and HashMap::remove on the capture group map, a function
\* from the bound ids to the matched characters.
cg_insert(cg, id, m) ==
    [i \in DOMAIN cg \cup {id} |-> IF i = id THEN m ELSE cg[i]]
cg_remove(cg, id) == [i \in DOMAIN cg \ {id} |-> cg[i]]
EmptyMap == [i \in {} |-> <<>>]

\* is_match with the negation of a character class dropped.
is_match_negation_dropped(char, pattern) ==
    CASE pattern.kind = "Wildcard" -> "Some"
      [] pattern.kind = "Literal" ->
           IF pattern.char = char THEN "Some" ELSE "None"
      [] pattern.kind = "Digit" -> IF is_digit(char) THEN "Some" ELSE "None"
      [] pattern.kind = "Word" -> IF is_word(char) THEN "Some" ELSE "None"
      [] pattern.kind = "CharacterClass" ->
           IF is_any_of(pattern.chars, char) THEN "Some" ELSE "None"
      [] OTHER -> "Panic"

\* is_match: "Some", "None", or "Panic" for a syntax that does not match one
\* character.
is_match(char, pattern) ==
    CASE pattern.kind = "Wildcard" -> "Some"
      [] pattern.kind = "Literal" ->
           IF pattern.char = char THEN "Some" ELSE "None"
      [] pattern.kind = "Digit" -> IF is_digit(char) THEN "Some" ELSE "None"
      [] pattern.kind = "Word" -> IF is_word(char) THEN "Some" ELSE "None"
      [] pattern.kind = "CharacterClass" /\ pattern.is_negated ->
           IF ~is_any_of(pattern.chars, char) THEN "Some" ELSE "None"
      [] pattern.kind = "CharacterClass" /\ ~pattern.is_negated ->
           IF is_any_of(pattern.chars, char) THEN "Some" ELSE "None"
      [] OTHER -> "Panic"

is_match_panic == "Only one-character matching syntax expected here"

RECURSIVE match_here(_, _, _)
RECURSIVE match_star_loop(_, _, _, _, _)
RECURSIVE match_options(_, _, _, _, _)

\* match_star taking every character the syntax matches before it tries the
\* remainder, and never giving one back.
match_star_loop_no_backoff(match_head, text_remainder, syntax, remainder, cgroups) ==
    IF text_remainder # <<>> /\ is_match(Head(text_remainder), syntax) = "Some"
    THEN match_star_loop(Append(match_head, Head(text_remainder)),
                         slice_from(text_remainder, 1), syntax, remainder,
                         cgroups)
    ELSE LET match_tail == match_here(text_remainder, remainder, cgroups) IN
         IF match_tail.tag = "Some"
         THEN Some(match_head \o match_tail.m, match_tail.cg)
         ELSE match_tail

\* The loop of match_star going on by as many characters as the character it
\* took has bytes.
match_star_loop_byte_step(match_head, text_remainder, syntax, remainder, cgroups) ==
    LET match_tail == match_here(text_remainder, remainder, cgroups) IN
    IF match_tail.tag = "Some"
    THEN Some(match_head \o match_tail.m, match_tail.cg)
    ELSE IF match_tail.tag = "Panic" THEN match_tail
    ELSE IF text_remainder = <<>> THEN None(match_tail.cg)
    ELSE LET char == Head(text_remainder)
             match_char == is_match(char, syntax)
         IN IF match_char = "Panic"
            THEN Panic(is_match_panic, match_tail.cg)
            ELSE IF match_char = "None" THEN None(match_tail.cg)
            ELSE match_star_loop(Append(match_head, char),
                                 slice_from(text_remainder, len_utf8(char)),
                                 syntax, remainder, match_tail.cg)

\* The loop of match_star: match_head is the match collected so far.
match_star_loop(match_head, text_remainder, syntax, remainder, cgroups) ==
    LET match_tail == match_here(text_remainder, remainder, cgroups) IN
    IF match_tail.tag = "Some"
    THEN Some(match_head \o match_tail.m, match_tail.cg)
    ELSE IF match_tail.tag = "Panic" THEN match_tail
    ELSE IF text_remainder = <<>> THEN None(match_tail.cg)
    ELSE LET char == Head(text_remainder)
             match_char == is_match(char, syntax)
         IN IF match_char = "Panic"
            THEN Panic(is_match_panic, match_tail.cg)
            ELSE IF match_char = "None" THEN None(match_tail.cg)
            ELSE match_star_loop(Append(match_head, char),
                                 slice_from(text_remainder, 1),
                                 syntax, remainder, match_tail.cg)

match_star(text, syntax, remainder, cgroups) ==
    match_star_loop(<<>>, text, syntax, remainder, cgroups)

match_question_mark(text, syntax, pattern, cgroups) ==
    LET pattern_once == <<syntax>> \o pattern
        match_once == match_here(text, pattern_once, cgroups)
    IN IF match_once.tag = "None"
       THEN match_here(text, pattern, match_once.cg)
       ELSE match_once

\* match_here, head of the pattern OneOrMore { syntax: s }.
match_one_or_more(text, pattern, cgroups) ==
    LET s == pattern[1].syntax[1]
        match_head == match_here(text, <<s>>, cgroups)
    IN IF match_head.tag # "Some" THEN match_head
       ELSE LET match_tail ==
                  match_star(slice_from(text, Len(match_head.m)), s,
                             Tail(pattern), match_head.cg)
            IN IF match_tail.tag # "Some" THEN match_tail
               ELSE Some(match_head.m \o match_tail.m, match_tail.cg)

\* match_here, head of the pattern CaptureGroup: the loop over its options,
\* from option i on.
match_options(text, group, i, pattern_remainder, cgroups) ==
    IF i > Len(group.options) THEN None(cgroups)
    ELSE LET end == CaptureGroupEnd(text, group.id)
             pattern_total == group.options[i] \o <<end>> \o pattern_remainder
             match_total == match_here(text, pattern_total, cgroups)
         IN IF match_total.tag = "None"
            THEN match_options(text, group, i + 1, pattern_remainder,
                               match_total.cg)
            ELSE match_total

\* match_here, head of the pattern CaptureGroupEnd.
match_capture_group_end(text, pattern, cgroups) ==
    LET text_original == pattern[1].text
        id == pattern[1].id
        match_len == str_len(text_original) - str_len(text)
        match_group == slice_to(text_original, match_len)
    IN IF id \in DOMAIN cgroups
       THEN Panic("Duplicate capture group result", cgroups)
       ELSE LET match_remainder ==
                  match_here(text, Tail(pattern),
                             cg_insert(cgroups, id, match_group))
            IN IF match_remainder.tag # "None" THEN match_remainder
               ELSE IF id \notin DOMAIN match_remainder.cg
                    THEN Panic("Unable to remove capture group",
                               match_remainder.cg)
                    ELSE None(cg_remove(match_remainder.cg, id))

\* The BackReference branch skipping as many characters as the group matched
\* without comparing them.
match_back_reference_unchecked(text, pattern, cgroups) ==
    LET id == pattern[1].id IN
    IF id \notin DOMAIN cgroups
    THEN Panic("No capture group with id has been matched yet", cgroups)
    ELSE LET match_original == cgroups[id] IN
         IF Len(match_original) <= Len(text)
         THEN LET match_remainder ==
                    match_here(slice_from(text, Len(match_original)),
                               Tail(pattern), cgroups)
              IN IF match_remainder.tag # "Some" THEN match_remainder
                 ELSE Some(match_original \o match_remainder.m,
                           match_remainder.cg)
         ELSE None(cgroups)

\* match_here, head of the pattern BackReference.
match_back_reference(text, pattern, cgroups) ==
    LET id == pattern[1].id IN
    IF id \notin DOMAIN cgroups
    THEN Panic("No capture group with id has been matched yet", cgroups)
    ELSE LET match_original == cgroups[id] IN
         IF starts_with(text, match_original)
         THEN LET match_remainder ==
                    match_here(slice_from(text, Len(match_original)),
                               Tail(pattern), cgroups)
              IN IF match_remainder.tag # "Some" THEN match_remainder
                 ELSE Some(match_original \o match_remainder.m,
                           match_remainder.cg)
         ELSE None(cgroups)

\* The EndOfLineAnchor branch without the test that the text is at its end.
match_end_of_line_anchor_anywhere(text, pattern, cgroups) ==
    IF Len(pattern) = 1 THEN Some(<<>>, cgroups) ELSE None(cgroups)

\* match_here, head of the pattern EndOfLineAnchor.
match_end_of_line_anchor(text, pattern, cgroups) ==
    IF Len(pattern) = 1 /\ str_len(text) = 0
    THEN Some(<<>>, cgroups) ELSE None(cgroups)

\* The single character branch merging the match of the remainder before the
\* character it matched itself.
match_one_char_tail_first(text, pattern, cgroups) ==
    IF text # <<>>
    THEN LET c == Head(text)
             match_char == is_match(c, pattern[1])
         IN IF match_char = "Panic" THEN Panic(is_match_panic, cgroups)
            ELSE IF match_char = "None" THEN None(cgroups)
            ELSE LET match_remainder ==
                       match_here(slice_from(text, 1), Tail(pattern), cgroups)
                 IN IF match_remainder.tag # "Some" THEN match_remainder
                    ELSE Some(match_remainder.m \o <<c>>, match_remainder.cg)
    ELSE None(cgroups)

\* match_here, any other head of the pattern: one character of the text
\* against the head, then the rest.
match_one_char(text, pattern, cgroups) ==
    IF text # <<>>
    THEN LET c == Head(text)
             match_char == is_match(c, pattern[1])
         IN IF match_char = "Panic" THEN Panic(is_match_panic, cgroups)
            ELSE IF match_char = "None" THEN None(cgroups)
            ELSE LET match_remainder ==
                       match_here(slice_from(text, 1), Tail(pattern), cgroups)
                 IN IF match_remainder.tag # "Some" THEN match_remainder
                    ELSE Some(<<c>> \o match_remainder.m, match_remainder.cg)
    ELSE None(cgroups)

match_here(text, pattern, cgroups) ==
    IF pattern = <<>> THEN Some(<<>>, cgroups)
    ELSE
    LET syntax == pattern[1] IN
    CASE syntax.kind = "OneOrMore" -> match_one_or_more(text, pattern, cgroups)
      [] syntax.kind = "ZeroOrOne" ->
           match_question_mark(text, syntax.syntax[1], Tail(pattern), cgroups)
      [] syntax.kind = "CaptureGroup" ->
           match_options(text, syntax, 1, Tail(pattern), cgroups)
      [] syntax.kind = "CaptureGroupEnd" ->
           match_capture_group_end(text, pattern, cgroups)
      [] syntax.kind = "BackReference" ->
           match_back_reference(text, pattern, cgroups)
      [] syntax.kind = "EndOfLineAnchor" ->
           match_end_of_line_anchor(text, pattern, cgroups)
      [] OTHER -> match_one_char(text, pattern, cgroups)

\* A call match_here(text, pattern, cgroups).
Call(text, pattern, cgroups) ==
    [text |-> text, pattern |-> pattern, cgroups |-> cgroups]

RECURSIVE match_star_calls(_, _, _, _)
\* The calls of match_here that the loop of match_star makes, in order: one
\* for each iteration.
match_star_calls(text_remainder, syntax, remainder, cgroups) ==
    LET match_tail == match_here(text_remainder, remainder, cgroups) IN
    <<Call(text_remainder, remainder, cgroups)>> \o
    (IF /\ match_tail.tag = "None"
        /\ text_remainder # <<>>
        /\ is_match(Head(text_remainder), syntax) = "Some"
     THEN match_star_calls(slice_from(text_remainder, 1), syntax, remainder,
                           match_tail.cg)
     ELSE <<>>)

RECURSIVE match_options_calls(_, _, _, _, _)
\* The calls of match_here that the loop over the options of a capture group
\* makes, from option i on.
match_options_calls(text, group, i, pattern_remainder, cgroups) ==
    IF i > Len(group.options) THEN <<>>
    ELSE LET end == CaptureGroupEnd(text, group.id)
             pattern_total == group.options[i] \o <<end>> \o pattern_remainder
             match_total == match_here(text, pattern_total, cgroups)
         IN <<Call(text, pattern_total, cgroups)>> \o
            (IF match_total.tag = "None"
             THEN match_options_calls(text, group, i + 1, pattern_remainder,
                                      match_total.cg)
             ELSE <<>>)

\* The calls of match_here that the call match_here(text, pattern, cgroups)
\* makes itself or in match_star and match_question_mark, in order.
match_here_calls(text, pattern, cgroups) ==
    IF pattern = <<>> THEN <<>>
    ELSE
    LET syntax == pattern[1] IN
    CASE syntax.kind = "OneOrMore" ->
           LET s == syntax.syntax[1]
               match_head == match_here(text, <<s>>, cgroups)
           IN <<Call(text, <<s>>, cgroups)>> \o
              (IF match_head.tag = "Some"
               THEN match_star_calls(slice_from(text, Len(match_head.m)), s,
                                     Tail(pattern), match_head.cg)
               ELSE <<>>)
      [] syntax.kind = "ZeroOrOne" ->
           LET pattern_once == <<syntax.syntax[1]>> \o Tail(pattern)
               match_once == match_here(text, pattern_once, cgroups)
           IN <<Call(text, pattern_once, cgroups)>> \o
              (IF match_once.tag = "None"
               THEN <<Call(text, Tail(pattern), match_once.cg)>>
               ELSE <<>>)
      [] syntax.kind = "CaptureGroup" ->
           match_options_calls(text, syntax, 1, Tail(pattern), cgroups)
      [] syntax.kind = "CaptureGroupEnd" ->
           LET match_len == str_len(syntax.text) - str_len(text)
               match_group == slice_to(syntax.text, match_len)
           IN IF syntax.id \in DOMAIN cgroups THEN <<>>
              ELSE <<Call(text, Tail(pattern),
                          cg_insert(cgroups, syntax.id, match_group))>>
      [] syntax.kind = "BackReference" ->
           IF syntax.id \in DOMAIN cgroups
              /\ starts_with(text, cgroups[syntax.id])
           THEN <<Call(slice_from(text, Len(cgroups[syntax.id])),
                       Tail(pattern), cgroups)>>
           ELSE <<>>
      [] syntax.kind = "EndOfLineAnchor" -> <<>>
      [] OTHER ->
           IF text # <<>> /\ is_match(Head(text), syntax) = "Some"
           THEN <<Call(slice_from(text, 1), Tail(pattern), cgroups)>>
           ELSE <<>>

(***************************************************************************)
(* The inputs of match_pattern that are checked                            *)
(***************************************************************************)

MaxPatLen == 2
MaxTextLen == 2
MaxAtomTextLen == 3
MaxClassLen == 2
MaxLitLen == 2
MaxAffixLen == 1
MaxRunTextLen == 3
MaxWordLen == 2
MaxGroupPatLen == 6
MaxMultiByteTextLen == 3

\* All sequences over S of length lo to hi.
SeqsOf(S, lo, hi) == UNION {[1..n -> S] : n \in lo..hi}

\* Every pattern string up to MaxPatLen over the special characters and some
\* literals, against every short text.
PatChars ==
    {"\\", "(", ")", "[", "]", "^", "$", "+", "?", ".", "|",
     "a", "b", "d", "1"}
TextChars == {"a", "ö"}
ShortPatterns == SeqsOf(PatChars, 0, MaxPatLen)
ShortTexts == SeqsOf(TextChars, 0, MaxTextLen)

\* The patterns of exactly one single-character atom: a literal, \d, \w, [S]
\* and [^S].
LiteralChars == {"a", "_", "1", "ö"}
ClassChars == {"a", "1"}
ClassPatterns ==
    {<<"[">> \o S \o <<"]">> : S \in SeqsOf(ClassChars, 0, MaxClassLen)}
NegatedClassPatterns ==
    {<<"[", "^">> \o S \o <<"]">> : S \in SeqsOf(ClassChars, 0, MaxClassLen)}
AtomPatterns ==
    {<<c>> : c \in LiteralChars} \cup {<<"\\", "d">>, <<"\\", "w">>}
    \cup ClassPatterns \cup NegatedClassPatterns
AtomTextChars == {"a", "A", "1", "_", "-", "ö"}
AtomTexts == SeqsOf(AtomTextChars, 0, MaxAtomTextLen)

\* Anchored strings of literals: ^p, p$ and ^$.
LitStrings == SeqsOf({"a", "b"}, 1, MaxLitLen)
AnchorPatterns ==
    {<<"^">> \o p : p \in LitStrings} \cup {p \o <<"$">> : p \in LitStrings}
    \cup {<<"^", "$">>}
AnchorTexts == SeqsOf({"a", "b", "ö"}, 0, MaxLitLen + 1)

\* pre X+ post, with pre and post strings of literals and X an atom.
Affixes == SeqsOf({"a", "b"}, 0, MaxAffixLen)
RunAtoms ==
    {<<"a">>, <<"\\", "d">>, <<"\\", "w">>, <<"[", "a", "1", "]">>,
     <<"[", "^", "a", "]">>}
RunPatterns ==
    {pre \o X \o <<"+">> \o post :
        pre \in Affixes, X \in RunAtoms, post \in Affixes}
RunTexts == SeqsOf({"a", "b", "1"}, 0, MaxRunTextLen)

\* A group, " and ", and a reference to the group, against texts x and y.
WordAndRef == <<"(", "\\", "w", "+", ")", " ", "a", "n", "d", " ", "\\", "1">>
CatAndRef == <<"(", "c", "a", "t", ")", " ", "a", "n", "d", " ", "\\", "1">>
BackRefPatterns == {WordAndRef, CatAndRef}
Words ==
    SeqsOf({"a", "b"}, 1, MaxWordLen) \cup {<<"c", "a", "t">>, <<"a", "t">>}
Margins == {<<>>, <<"a">>, <<"-">>, <<"ö">>}
BackRefTexts ==
    {pre \o x \o <<" ", "a", "n", "d", " ">> \o y \o post :
        pre \in Margins, x \in Words, y \in Words, post \in {<<>>, <<"a">>}}

\* Quantified and optional capture groups, groups in groups.
NestedAlternation ==
    <<"(", "(", "c", ".", "t", "|", "d", ".", "g", ")", " ", "a", "n", "d",
      " ", "(", "f", ".", ".", "h", "|", "b", ".", ".", "d", ")", ")", ",",
      " ", "\\", "2", " ", "w", "i", "t", "h", " ", "\\", "3", ",", " ",
      "\\", "1">>
NestedAlternationText ==
    <<"c", "a", "t", " ", "a", "n", "d", " ", "f", "i", "s", "h", ",", " ",
      "c", "a", "t", " ", "w", "i", "t", "h", " ", "f", "i", "s", "h", ",",
      " ", "c", "a", "t", " ", "a", "n", "d", " ", "f", "i", "s", "h">>
GroupPatterns ==
    {<<"(", "a", ")", "+", "b">>,
     <<"(", "a", ")", "?", "\\", "1">>,
     <<"(", "a", ")", "?", "b">>,
     <<"(", "a", "|", "b", "a", ")", "+", "c">>,
     <<"(", "a", "|", "b", ")", "\\", "1">>,
     <<"(", "(", "a", "|", "b", ")", ")">>,
     <<"(", "(", "a", ")", "b", ")", "\\", "2", "\\", "1">>,
     <<"a", "?">>, <<"$">>,
     <<"(", "a", "+", ")">>,
     <<"(", "^", "a", "|", "b", ")">>, <<"a", "(", "^", "b", ")">>,
     <<"(", "a", "?", ")", "+">>, <<"(", "a", "?", ")", "+", "b">>,
     <<"$", "+">>, <<"^", "$", "+">>}
GroupTexts == SeqsOf({"a", "b", "c"}, 0, MaxRunTextLen)

\* Every string of brackets, bars and a literal: groups side by side and
\* groups in groups.
GroupIdPatterns == SeqsOf({"(", ")", "|", "a"}, 0, MaxGroupPatLen)
GroupIdTexts == {<<"a">>}

\* A group of literals, and what follows it, against texts with characters of
\* one and of two bytes.
OUmlautRef == <<"(", "ö", ")", " ", "\\", "1">>
LiteralGroupPatterns ==
    {OUmlautRef, <<"(", "ö", ")">>, <<"(", "ö", ")", "a">>,
     <<"(", "a", ")", "ö">>, <<"(", "a", "ö", ")">>}
MultiByteTexts == SeqsOf({"ö", " ", "a"}, 0, MaxMultiByteTextLen)

\* Runs over characters of two bytes.
MultiByteRunPatterns == {<<".", "+", "a">>, <<"ö", "+", "a">>}

\* p s?, with p a string of literals.
OptionalSPatterns ==
    {p \o <<"s", "?">> : p \in SeqsOf({"a", "b"}, 0, MaxLitLen)}
OptionalSTexts == SeqsOf({"a", "b", "s"}, 0, MaxRunTextLen)

\* Patterns the parser has to reject.
MalformedPatterns ==
    {<<"[", "a">>, <<"(", "a">>, <<"(", "a", "]">>, <<"[", "a", ")">>,
     <<"(", "a", "[", "b", ")", "c", "]">>, <<"a", "(", "b", "|", "c">>,
     <<"+", "a">>, <<"?", "a">>, <<"(", "+", "a", ")">>,
     <<"(", "a", "|", "?", ")">>, <<"\\", "x">>, <<"a", "\\", ".">>,
     <<"a", "b", "\\">>, <<"\\", "\\", "\\">>, <<"(", "a", "\\", ")">>}

\* The pairs of pattern and text match_pattern is called with.
Inputs(p, t) ==
    \/ p \in ShortPatterns /\ t \in ShortTexts
    \/ p \in MalformedPatterns /\ t \in ShortTexts
    \/ p \in AtomPatterns /\ t \in AtomTexts
    \/ p \in AnchorPatterns /\ t \in AnchorTexts
    \/ p \in RunPatterns /\ t \in RunTexts
    \/ p \in BackRefPatterns /\ t \in BackRefTexts
    \/ p \in GroupPatterns /\ t \in GroupTexts
    \/ p \in GroupIdPatterns /\ t \in GroupIdTexts
    \/ p \in LiteralGroupPatterns /\ t \in MultiByteTexts
    \/ p \in MultiByteRunPatterns /\ t \in MultiByteTexts
    \/ p \in OptionalSPatterns /\ t \in OptionalSTexts
    \/ p = NestedAlternation /\ t = NestedAlternationText

(***************************************************************************)
(* Driver: match_pattern (src/grep.rs) as a state machine                  *)
(***************************************************************************)

VARIABLES
    input_line,      \* the text argument of match_pattern
    pattern,         \* the pattern argument of match_pattern
    pc,              \* "compile", "anchored", "loop" or "done"
    syntax,          \* the parsed pattern
    start_index,     \* the loop variable of match_pattern
    capture_groups,  \* the map shared by every call of match_here
    result,          \* "none" while running; "true", "false" or "panic"
    panic_msg,       \* the message of the panic, if any
    attempts,        \* the calls of match_here made so far, in order
    call             \* the call of match_here looked into, or NoCall

vars ==
    <<input_line, pattern, pc, syntax, start_index, capture_groups, result,
      panic_msg, attempts, call>>

NoCall == <<>>

\* What one call match_here(text, ..., cgroups) by the driver did.
Attempt(offset, text, before, r) ==
    [offset |-> offset, text |-> text, before |-> before, tag |-> r.tag,
     m |-> r.m, after |-> r.cg]

Init ==
    /\ Inputs(pattern, input_line)
    /\ pc = "compile"
    /\ syntax = <<>>
    /\ start_index = 0
    /\ capture_groups = EmptyMap
    /\ result = "none"
    /\ panic_msg = ""
    /\ attempts = <<>>
    /\ call = NoCall

\* tokenize_pattern and parse_pattern; a panic of the parser ends the call.
Compile ==
    /\ pc = "compile"
    /\ LET parsed == parse_pattern(tokenize_pattern(pattern)) IN
       IF parsed.err # ""
       THEN /\ pc' = "done"
            /\ result' = "panic"
            /\ panic_msg' = parsed.err
            /\ UNCHANGED syntax
       ELSE /\ syntax' = parsed.syntax
            /\ pc' = IF parsed.syntax # <<>>
                        /\ parsed.syntax[1].kind = "StartOfLineAnchor"
                     THEN "anchored" ELSE "loop"
            /\ UNCHANGED <<result, panic_msg>>
    /\ UNCHANGED <<input_line, pattern, start_index, capture_groups, attempts,
                   call>>

\* The pattern starts with a start of line anchor: one call of match_here on
\* the whole line.
MatchAnchored ==
    /\ pc = "anchored"
    /\ LET r == match_here(input_line, Tail(syntax), capture_groups) IN
       /\ attempts' = Append(attempts, Attempt(0, input_line, capture_groups, r))
       /\ capture_groups' = r.cg
       /\ pc' = "done"
       /\ result' = CASE r.tag = "Some" -> "true"
                      [] r.tag = "None" -> "false"
                      [] OTHER -> "panic"
       /\ panic_msg' = r.msg
    /\ UNCHANGED <<input_line, pattern, syntax, start_index, call>>

\* One iteration of the loop over start_index in 0..input_line.len().
MatchAtOffset ==
    /\ pc = "loop"
    /\ start_index < str_len(input_line)
    /\ LET text == slice_from(input_line, start_index)
           r == match_here(text, syntax, capture_groups)
       IN /\ attempts' =
               Append(attempts, Attempt(start_index, text, capture_groups, r))
          /\ capture_groups' = r.cg
          /\ IF r.tag = "Some"
             THEN /\ pc' = "done"
                  /\ result' = "true"
                  /\ UNCHANGED <<start_index, panic_msg>>
             ELSE IF r.tag = "Panic"
             THEN /\ pc' = "done"
                  /\ result' = "panic"
                  /\ panic_msg' = r.msg
                  /\ UNCHANGED start_index
             ELSE /\ start_index' = start_index + 1
                  /\ UNCHANGED <<pc, result, panic_msg>>
    /\ UNCHANGED <<input_line, pattern, syntax, call>>

\* The loop is over without a match.
ReturnFalse ==
    /\ pc = "loop"
    /\ start_index >= str_len(input_line)
    /\ pc' = "done"
    /\ result' = "false"
    /\ UNCHANGED <<input_line, pattern, syntax, start_index, capture_groups,
                   panic_msg, attempts, call>>

Next == Compile \/ MatchAnchored \/ MatchAtOffset \/ ReturnFalse

Spec == Init /\ [][Next]_vars

\* The pattern that match_pattern hands to match_here: the parsed pattern
\* without its leading start of line anchor.
TopPattern ==
    IF syntax # <<>> /\ syntax[1].kind = "StartOfLineAnchor"
    THEN Tail(syntax) ELSE syntax

\* match_pattern is over: look into one of the calls of match_here it made.
EnterCall ==
    /\ pc = "done"
    /\ call = NoCall
    /\ \E i \in 1..Len(attempts) :
          call' = Call(attempts[i].text, TopPattern, attempts[i].before)
    /\ UNCHANGED <<input_line, pattern, pc, syntax, start_index,
                   capture_groups, result, panic_msg, attempts>>

\* From the call looked into to one of the calls of match_here it makes.
Descend ==
    /\ call # NoCall
    /\ LET calls == match_here_calls(call.text, call.pattern, call.cgroups)
       IN \E i \in 1..Len(calls) : call' = calls[i]
    /\ UNCHANGED <<input_line, pattern, pc, syntax, start_index,
                   capture_groups, result, panic_msg, attempts>>

CallNext == Next \/ EnterCall \/ Descend

\* match_pattern, and then every call of match_here made on the way.
CallSpec == Init /\ [][CallNext]_vars

(***************************************************************************)
(* Reference semantics the claims are stated against: what a pattern of a  *)
(* given shape means, read off the pattern string.                         *)
(***************************************************************************)

AsciiDigits == {"0", "1", "2", "3", "9"}
AsciiLetters ==
    {"a", "b", "c", "d", "f", "g", "h", "i", "n", "s", "t", "w", "x", "z",
     "A", "Z"}

\* Character c satisfies the single-character atom written as the string atom.
AtomHolds(atom, c) ==
    CASE Len(atom) = 1 -> c = atom[1]
      [] atom = <<"\\", "d">> -> c \in AsciiDigits
      [] atom = <<"\\", "w">> -> c \in AsciiDigits \cup AsciiLetters \cup {"_"}
      [] Len(atom) > 2 /\ atom[1] = "[" /\ atom[2] = "^" ->
           \A i \in 3..(Len(atom) - 1) : atom[i] # c
      [] Len(atom) > 1 /\ atom[1] = "[" /\ atom[2] # "^" ->
           \E i \in 2..(Len(atom) - 1) : atom[i] = c

\* Text t has s at position i.
HasAt(t, i, s) ==
    /\ i >= 1
    /\ i + Len(s) - 1 <= Len(t)
    /\ SubSeq(t, i, i + Len(s) - 1) = s

Contains(t, s) == \E i \in 1..(Len(t) + 1) : HasAt(t, i, s)

Bool(b) == IF b THEN "true" ELSE "false"

Done == pc = "done"

LastAttempt == attempts[Len(attempts)]

\* C1: a pattern of exactly one single-character atom (a literal, \d, \w,
\* [S], [^S]) matches a text iff the text has a character satisfying the atom.
C1_SingleAtom ==
    (Done /\ pattern \in AtomPatterns) =>
        result = Bool(\E i \in 1..Len(input_line) :
                          AtomHolds(pattern, input_line[i]))

\* A negated class that matched at an offset after the first.
C1_Witness ==
    /\ Done
    /\ pattern \in NegatedClassPatterns
    /\ result = "true"
    /\ Len(attempts) > 1

\* What ^p, p$ and ^$ mean for a text t.
AnchorExpected(p, t) ==
    CASE p = <<"^", "$">> -> t = <<>>
      [] p # <<"^", "$">> /\ p[1] = "^" -> HasAt(t, 1, Tail(p))
      [] p[1] # "^" ->
           HasAt(t, Len(t) - Len(p) + 2, SubSeq(p, 1, Len(p) - 1))

\* C2: ^p matches iff the text starts with p, p$ iff the text ends with p,
\* and ^$ iff the text is empty, for p a non-empty string of literals.
C2_Anchors ==
    (Done /\ pattern \in AnchorPatterns) =>
        result = Bool(AnchorExpected(pattern, input_line))

\* p$ matched the end of a text that is longer than p.
C2_Witness ==
    /\ Done
    /\ pattern \in {q \o <<"$">> : q \in LitStrings}
    /\ result = "true"
    /\ Len(attempts) > 1

StartAnchored == pattern # <<>> /\ pattern[1] = "^"

\* C3: a pattern that is not start-anchored is tried at every character
\* offset 0 .. length(text), in increasing order, so that match_pattern
\* returns false only after the empty suffix was tried, and "a?" and "$"
\* match every text.
C3_EveryOffsetAttempted ==
    (Done /\ ~StartAnchored /\ result \in {"true", "false"}) =>
        /\ \A i \in 1..Len(attempts) : attempts[i].offset = i - 1
        /\ result = "false" => Len(attempts) = Len(input_line) + 1
        /\ pattern \in {<<"a", "?">>, <<"$">>} => result = "true"

\* C4: a call of match_here that returns no match leaves the capture group
\* map as it was before the call, so that the map is empty after every failed
\* attempt of match_pattern.
C4_Rollback ==
    \A i \in 1..Len(attempts) :
        attempts[i].tag = "None" =>
            /\ attempts[i].after = attempts[i].before
            /\ attempts[i].after = EmptyMap

And == <<" ", "a", "n", "d", " ">>

\* Text t has w, " and ", w for a non-empty string w of word characters.
WordAndWord(t) ==
    \E i \in 1..Len(t), n \in 1..Len(t) :
        /\ i + n - 1 <= Len(t)
        /\ \A j \in i..(i + n - 1) :
              t[j] \in AsciiDigits \cup AsciiLetters \cup {"_"}
        /\ HasAt(t, i + n, And \o SubSeq(t, i, i + n - 1))

\* C5: a back reference to a group bound to s matches exactly s: "(\w+) and
\* \1" matches iff the text has w, " and ", w for a non-empty string w of
\* word characters, the match returned being that substring with w the
\* group's binding, and "(cat) and \1" iff the text has "cat and cat".
C5_BackReference ==
    Done =>
        /\ pattern = WordAndRef =>
             /\ result = Bool(WordAndWord(input_line))
             /\ result = "true" =>
                  /\ LastAttempt.m =
                        capture_groups[1] \o And \o capture_groups[1]
                  /\ HasAt(LastAttempt.text, 1, LastAttempt.m)
        /\ pattern = CatAndRef =>
             result = Bool(Contains(input_line,
                                    <<"c", "a", "t">> \o And \o <<"c", "a", "t">>))

\* "(\w+) and \1" matched after an attempt where the reference did not find
\* the text of the group.
C5_Witness ==
    /\ Done
    /\ pattern = WordAndRef
    /\ input_line = <<"a", "b">> \o And \o <<"b">>
    /\ result = "true"
    /\ capture_groups = <<<<"b">>>>

\* C6: the options of a group are split only at the bars of the group itself:
\* the pattern of nested groups parses into one group with id 1 and a single
\* option, and matches its text.
C6_NestedAlternation ==
    (pc # "compile" /\ pattern = NestedAlternation) =>
        /\ result # "panic"
        /\ Len(syntax) > 0
        /\ syntax[1].kind = "CaptureGroup"
        /\ syntax[1].id = 1
        /\ Len(syntax[1].options) = 1
        /\ Done => result = "true"

\* C7: a back reference to a group that is not bound on the current path,
\* as in "(a)?\1", is a no-match: match_pattern returns a boolean.
C7_UnboundBackReference ==
    (Done /\ pattern = <<"(", "a", ")", "?", "\\", "1">>) =>
        result \in {"true", "false"}

\* C8: for a pattern the parser accepts, is_match is never given a syntax
\* other than Literal, Digit, Word, Wildcard or CharacterClass.
C8_OnlyOneCharSyntax == Done => panic_msg # is_match_panic

\* Text t has pre, then one or more characters satisfying X, then post.
RunExpected(pre, X, post, t) ==
    \E i \in 1..Len(t), k \in 1..Len(t) :
        /\ HasAt(t, i, pre)
        /\ i + Len(pre) + k - 1 <= Len(t)
        /\ \A j \in 0..(k - 1) : AtomHolds(X, t[i + Len(pre) + j])
        /\ HasAt(t, i + Len(pre) + k, post)

\* C9: pre X+ post matches iff the text has pre, then k >= 1 characters
\* satisfying X, then post.
C9_OneOrMore ==
    Done =>
        \A pre \in Affixes, X \in RunAtoms, post \in Affixes :
            pattern = pre \o X \o <<"+">> \o post =>
                result = Bool(RunExpected(pre, X, post, input_line))

\* a+a matched "aa": the run gives its last character to post.
C9_Witness ==
    /\ Done
    /\ pattern = <<"a", "+", "a">>
    /\ input_line = <<"b", "a", "a">>
    /\ result = "true"

\* Position i of p is a backslash that starts an escape: the backslashes
\* right before it pair up.
StartsEscape(p, i) ==
    /\ i \in 1..Len(p)
    /\ p[i] = "\\"
    /\ Cardinality({k \in 1..(i - 1) : \A j \in k..(i - 1) : p[j] = "\\"}) % 2 = 0

\* The malformed patterns of C10.
Malformed(p) ==
    \/ \E i \in 1..Len(p) :
          p[i] = "[" /\ \A j \in (i + 1)..Len(p) : p[j] # "]"
    \/ \E i \in 1..Len(p) :
          p[i] = "(" /\ \A j \in (i + 1)..Len(p) : p[j] # ")"
    \/ \E i \in 1..Len(p), j \in 1..Len(p) :
          /\ i < j
          /\ \/ p[i] = "(" /\ p[j] = "]"
             \/ p[i] = "[" /\ p[j] = ")"
          /\ \A k \in (i + 1)..(j - 1) : p[k] \notin {"(", ")", "[", "]"}
    \/ \E i \in 1..Len(p) :
          /\ p[i] \in {"+", "?"}
          /\ i = 1 \/ p[i - 1] \in {"(", "|"}
    \/ \E i \in 1..(Len(p) - 1) :
          /\ StartsEscape(p, i)
          /\ p[i + 1] \notin {"\\", "d", "w"} \cup AsciiDigits
    \/ StartsEscape(p, Len(p))

ParserPanics ==
    {"Incomplete character class (missing closing bracket)",
     "Invalid token in character class",
     "Incomplete alternation (missing closing bracket)",
     "Incomplete escape sequence",
     "Unrecognized escape sequence",
     "Unrecognized token type following backslash",
     "The one or more modifier can only appear after another token",
     "The zero or more modifier can only appear after another token",
     "Malformed pattern, cannot parse token"}

\* C10: a pattern with a '[' without ']', a '(' without ')', a bracket closed
\* by the other kind, a '+' or '?' with nothing parsed before it, an escape
\* of a character other than '\', 'd', 'w' or a digit, or a trailing lone
\* backslash makes the parser panic: there is no pattern tree and no call of
\* the matcher.
C10_MalformedPattern ==
    (pc # "compile" /\ Malformed(pattern)) =>
        /\ Done
        /\ result = "panic"
        /\ panic_msg \in ParserPanics
        /\ syntax = <<>>
        /\ attempts = <<>>

\* The parser rejected "(a[b)c]".
C10_Witness ==
    /\ Done
    /\ pattern = <<"(", "a", "[", "b", ")", "c", "]">>
    /\ result = "panic"
    /\ panic_msg = "Incomplete alternation (missing closing bracket)"

RECURSIVE GroupIds(_)
RECURSIVE OptionIds(_)
\* The ids of the capture groups of a sequence of nodes in pre-order: a group
\* before the groups of its options, the options and the nodes left to right.
GroupIds(nodes) ==
    IF nodes = <<>> THEN <<>>
    ELSE LET n == Head(nodes)
             here == CASE n.kind = "CaptureGroup" ->
                            <<n.id>> \o OptionIds(n.options)
                       [] n.kind \in {"OneOrMore", "ZeroOrOne"} ->
                            GroupIds(n.syntax)
                       [] OTHER -> <<>>
         IN here \o GroupIds(Tail(nodes))

OptionIds(options) ==
    IF options = <<>> THEN <<>>
    ELSE GroupIds(Head(options)) \o OptionIds(Tail(options))

RECURSIVE NestedIdsHigher(_)
\* Every group of the nodes has an id lower than every group inside it.
NestedIdsHigher(nodes) ==
    \A i \in 1..Len(nodes) :
        LET n == nodes[i] IN
        CASE n.kind = "CaptureGroup" ->
               /\ \A j \in 1..Len(OptionIds(n.options)) :
                     OptionIds(n.options)[j] > n.id
               /\ \A k \in 1..Len(n.options) : NestedIdsHigher(n.options[k])
          [] n.kind \in {"OneOrMore", "ZeroOrOne"} -> NestedIdsHigher(n.syntax)
          [] OTHER -> TRUE

ParserAccepted == pc # "compile" /\ panic_msg \notin ParserPanics

\* C11: the groups of the parsed pattern have the ids 1, 2, 3, ... in
\* pre-order, one id for each opening parenthesis of the pattern in the order
\* of the parentheses: the ids are distinct, grow from a group to the groups
\* right of it, and a group's id is lower than the id of every group in it.
C11_GroupIds ==
    ParserAccepted =>
        LET ids == GroupIds(syntax) IN
        /\ ids = [i \in 1..Len(ids) |-> i]
        /\ Len(ids) = Cardinality({i \in 1..Len(pattern) : pattern[i] = "("})
        /\ NestedIdsHigher(syntax)

\* "(())()": a group in a group, and a group after them.
C11_Witness ==
    /\ ParserAccepted
    /\ pattern = <<"(", "(", ")", ")", "(", ")">>
    /\ Len(syntax) = 2
    /\ syntax[1].options[1][1].id = 2
    /\ syntax[2].id = 3

\* The first k characters of t satisfy X, and post follows them.
RunFits(X, post, t, k) ==
    /\ k \in 1..Len(t)
    /\ \A i \in 1..k : AtomHolds(X, t[i])
    /\ HasAt(t, k + 1, post)

\* The match of X+ post at the start of t with the most repetitions of X.
GreedyMatch(X, post, t) ==
    LET k == CHOOSE n \in 1..Len(t) :
                 /\ RunFits(X, post, t, n)
                 /\ \A j \in (n + 1)..Len(t) : ~RunFits(X, post, t, j)
    IN SubSeq(t, 1, k) \o post

\* C12: one or more is greedy: the match that X+ post returns, and the
\* binding of a group around the quantifier as in "(a+)", have the largest
\* number of repetitions of X for which the rest of the pattern matches.
C12_GreedyOneOrMore ==
    (Done /\ result = "true") =>
        /\ \A X \in RunAtoms, post \in Affixes :
              pattern = X \o <<"+">> \o post =>
                  LastAttempt.m = GreedyMatch(X, post, LastAttempt.text)
        /\ pattern = <<"(", "a", "+", ")">> =>
              /\ capture_groups[1] = GreedyMatch(<<"a">>, <<>>, LastAttempt.text)
              /\ LastAttempt.m = capture_groups[1]

RECURSIVE HasStartAnchor(_)
\* Node n is a StartOfLineAnchor or has one inside it.
HasStartAnchor(n) ==
    CASE n.kind = "StartOfLineAnchor" -> TRUE
      [] n.kind \in {"OneOrMore", "ZeroOrOne"} -> HasStartAnchor(n.syntax[1])
      [] n.kind = "CaptureGroup" ->
           \E k \in 1..Len(n.options) :
               \E j \in 1..Len(n.options[k]) : HasStartAnchor(n.options[k][j])
      [] OTHER -> FALSE

\* C13: in the tree of a pattern the parser accepts, a StartOfLineAnchor is
\* the first node of the top-level sequence and nothing else: none is inside
\* a group's option or a quantifier, so that match_here, which the driver
\* calls without the leading anchor, never meets one.
C13_StartAnchorOnlyFirst ==
    ParserAccepted =>
        \A i \in 1..Len(syntax) :
            HasStartAnchor(syntax[i]) =>
                i = 1 /\ syntax[1].kind = "StartOfLineAnchor"

\* The literals between the brackets of a pattern "(w)...".
GroupLiteral(p) ==
    SubSeq(p, 2, (CHOOSE i \in 1..Len(p) : p[i] = ")") - 1)

\* C14: the binding recorded for a group is the text its option consumed,
\* also in a text with characters of more than one byte: a match of a
\* pattern "(w)..." with w a string of literals binds group 1 to w, and
\* "(ö) \1" matches the texts that have "ö ö".
C14_BindingIsConsumedText ==
    /\ \A i \in 1..Len(attempts) :
          (pattern \in LiteralGroupPatterns /\ attempts[i].tag = "Some") =>
              /\ 1 \in DOMAIN attempts[i].after
              /\ attempts[i].after[1] = GroupLiteral(pattern)
    /\ (Done /\ pattern = OUmlautRef) =>
          result = Bool(Contains(input_line, <<"ö", " ", "ö">>))

BindingPanics ==
    {"Duplicate capture group result", "Unable to remove capture group"}

\* C15: match_pattern never binds a group id that is bound and never removes
\* one that is not: no call ends with one of the two panics of the capture
\* group map, with the map carried from one offset to the next.
C15_NoBindingPanic == Done => panic_msg \notin BindingPanics

\* What the call looked into returns.
CallResult == match_here(call.text, call.pattern, call.cgroups)

HeadKind == IF call.pattern = <<>> THEN "" ELSE call.pattern[1].kind

OneCharKinds == {"Literal", "Digit", "Word", "Wildcard", "CharacterClass"}

\* C16: the match that a successful call of match_here returns is a prefix
\* of the text of the call, for the calls match_pattern makes and for every
\* call made inside them, whatever the head of the pattern; a call with the
\* empty pattern returns the empty match.
C16_MatchIsPrefix ==
    /\ \A i \in 1..Len(attempts) :
          attempts[i].tag = "Some" =>
              HasAt(attempts[i].text, 1, attempts[i].m)
    /\ call # NoCall =>
          /\ CallResult.tag = "Some" => HasAt(call.text, 1, CallResult.m)
          /\ call.pattern = <<>> =>
                CallResult.tag = "Some" /\ CallResult.m = <<>>

\* A call with a back reference at the head of the pattern that matched the
\* text of its group, with more text after it.
C16_Witness ==
    /\ call # NoCall
    /\ HeadKind = "BackReference"
    /\ CallResult.tag = "Some"
    /\ CallResult.m # <<>>
    /\ Len(call.text) > Len(CallResult.m)

\* What the call c of match_here returns.
ResultOf(c) == match_here(c.text, c.pattern, c.cgroups)

\* The call looked into has ZeroOrOne at the head of its pattern: it calls
\* match_here with the inner syntax and the rest first and returns what that
\* returns if it is a match; it calls match_here with the rest alone, on the
\* same text, only after the first call returned no match, and returns what
\* that returns.
ZeroOrOneOrder ==
    LET calls == match_here_calls(call.text, call.pattern, call.cgroups)
        rest == Tail(call.pattern)
        once == ResultOf(calls[1])
    IN /\ Len(calls) \in {1, 2}
       /\ calls[1] =
             Call(call.text, call.pattern[1].syntax \o rest, call.cgroups)
       /\ once.tag = "Some" => Len(calls) = 1 /\ CallResult = once
       /\ once.tag = "None" <=> Len(calls) = 2
       /\ Len(calls) = 2 =>
             /\ calls[2].text = call.text
             /\ calls[2].pattern = rest
             /\ CallResult = ResultOf(calls[2])
       /\ CallResult.tag = "Some" <=>
             \E i \in 1..Len(calls) : ResultOf(calls[i]).tag = "Some"

\* C17: zero or one tries the inner syntax and the rest first, and the rest
\* alone only after that failed, so that it matches iff one of the two does;
\* and match_pattern(t, p s?) is true iff t contains the string of literals p.
C17_ZeroOrOne ==
    /\ (call # NoCall /\ HeadKind = "ZeroOrOne") => ZeroOrOneOrder
    /\ (Done /\ pattern \in OptionalSPatterns) =>
          result = Bool(Contains(input_line,
                                 SubSeq(pattern, 1, Len(pattern) - 2)))

RECURSIVE Weight(_)
RECURSIVE NodeWeight(_)
RECURSIVE OptionsWeight(_)
\* A measure of patterns: the number of nodes of the sequence with the nodes
\* inside them, a group counting for two.
Weight(nodes) ==
    IF nodes = <<>> THEN 0
    ELSE NodeWeight(Head(nodes)) + Weight(Tail(nodes))

NodeWeight(n) ==
    CASE n.kind \in {"OneOrMore", "ZeroOrOne"} -> 1 + Weight(n.syntax)
      [] n.kind = "CaptureGroup" -> 2 + OptionsWeight(n.options)
      [] OTHER -> 1

OptionsWeight(options) ==
    IF options = <<>> THEN 0
    ELSE Weight(Head(options)) + OptionsWeight(Tail(options))

\* Every call of match_here made by the call looked into has a smaller
\* pattern and a text that is not longer.
CallsAreSmaller ==
    LET calls == match_here_calls(call.text, call.pattern, call.cgroups) IN
    \A i \in 1..Len(calls) :
        /\ Weight(calls[i].pattern) < Weight(call.pattern)
        /\ Len(calls[i].text) <= Len(call.text)

\* The call looked into has OneOrMore at the head of its pattern: after the
\* first match of the inner syntax, every iteration of the loop of match_star
\* goes on by exactly one character of the text, and what the call returns
\* is the match of the last iteration after the characters taken before it.
StarTakesOneCharacter ==
    LET calls == match_here_calls(call.text, call.pattern, call.cgroups)
        n == Len(calls)
        match_head == ResultOf(calls[1])
        last == ResultOf(calls[n])
    IN /\ n >= 1
       /\ n = 1 => match_head.tag # "Some" /\ CallResult.tag = match_head.tag
       /\ n > 1 =>
            /\ match_head.tag = "Some"
            /\ calls[2].text = slice_from(call.text, Len(match_head.m))
            /\ \A i \in 2..(n - 1) :
                  /\ calls[i].text # <<>>
                  /\ calls[i + 1].text = Tail(calls[i].text)
                  /\ ResultOf(calls[i]).tag = "None"
            /\ last.tag = "Some" =>
                  /\ CallResult.tag = "Some"
                  /\ CallResult.m =
                        SubSeq(call.text, 1, Len(match_head.m) + n - 2)
                        \o last.m
            /\ last.tag = "Panic" => CallResult.tag = "Panic"
            /\ last.tag = "None" => CallResult.tag \in {"None", "Panic"}

\* The steps match_pattern has left at most: one to parse, one for each
\* offset not tried yet, one to return.
StepsLeft ==
    CASE pc = "compile" -> str_len(input_line) + 2
      [] pc = "anchored" -> 1
      [] pc = "loop" -> str_len(input_line) - start_index + 1
      [] pc = "done" -> 0

\* One of the guards of Compile, MatchAnchored, MatchAtOffset and ReturnFalse
\* holds.
HasStep ==
    \/ pc = "compile"
    \/ pc = "anchored"
    \/ pc = "loop" /\ start_index < str_len(input_line)
    \/ pc = "loop" /\ start_index >= str_len(input_line)

\* C18: match_pattern returns, with a boolean or a panic: while it has not
\* returned it has a step to take, and every step leaves fewer steps; every
\* call of match_here made inside a call of match_here has a smaller pattern
\* (fewer nodes or less nesting) and no longer text, and every iteration of
\* the loop of match_star takes exactly one more character of the text, also
\* when the syntax under the quantifier matches the empty string.
C18_Terminates ==
    /\ [](/\ StepsLeft \in Nat
          /\ IF Done THEN result \in {"true", "false", "panic"}
                     ELSE result = "none" /\ HasStep
          /\ call # NoCall =>
                /\ CallsAreSmaller
                /\ HeadKind = "OneOrMore" => StarTakesOneCharacter)
    /\ [][Next => StepsLeft' < StepsLeft]_vars

\* "(a?)+": the group under the quantifier matched the empty string and the
\* call returned.
C18_Witness ==
    /\ call # NoCall
    /\ pattern = <<"(", "a", "?", ")", "+">>
    /\ HeadKind = "OneOrMore"
    /\ ResultOf(match_here_calls(call.text, call.pattern, call.cgroups)[1]).m
          = <<>>
    /\ CallResult.tag = "Some"
    /\ call.text # <<>>

=============================================================================
